---- MODULE Spec2Model ----
(***************************************************************************)
(* Model of the bulk prediction pipeline of accunodeai/server:             *)
(* src/workers.py process_bulk_predictions, run by two workers against one *)
(* database (src/database.py).  Each invocation owns a session with its    *)
(* own uncommitted rows; the committed tables are shared.                  *)
(***************************************************************************)
EXTENDS Integers, Sequences, FiniteSets, TLC

VARIABLES
    pc,          \* per worker: position inside process_bulk_predictions
    file,        \* per worker: the staged Excel file at file_path
    fileExists,  \* per worker: os.path.exists(file_path)
    job,         \* per worker: how many invocations it has started
    cell,        \* per worker: the stock_symbol cell of the current row
    processed,   \* per worker: local counter
    succeeded,   \* per worker: local counter
    failed,      \* per worker: local counter
    errors,      \* per worker: local list of error descriptions
    company,     \* per worker: id of the company resolved for the current row
    cause,       \* per worker: the exception caught by the per-row handler
    sess,        \* per worker: the session db (open flag, uncommitted rows)
    raised,      \* per worker: exception propagating out of the function
    swallowed,   \* per worker: the cleanup calls whose exception was passed over
    result,      \* per worker: the returned summary dict
    status,      \* per worker: state of its job as the job system reports it
    detail,      \* per worker: the arguments of the propagating exception
    scored,      \* per worker: the ratios handed to the scoring of the current row
    lastRejected,\* the last finished run that ended in the schema error
    queue,       \* the jobs the broker holds, oldest first
    handles,     \* what each submission returned to its submitter, in order
    delivered,   \* the ids of the jobs handed to a worker
    active,      \* the workers that listen on the queue
    calls,       \* per worker: the calls its invocation made on its session
    companies,   \* committed rows of table companies
    predictions, \* committed rows of table default_rate_predictions
    ratios       \* committed rows of table financial_ratios

vars == <<pc, file, fileExists, job, cell, processed, succeeded, failed, errors,
          company, cause, sess, raised, swallowed, result, status,
          detail, scored, lastRejected, queue, handles, delivered, active,
          calls, companies, predictions, ratios>>

counters == <<processed, succeeded, failed, errors>>
tables == <<companies, predictions, ratios>>
jobsys == <<queue, handles, delivered, active>>
pipeline == <<pc, file, fileExists, job, cell, processed, succeeded, failed, errors,
              company, cause, sess, raised, swallowed, result, status,
              detail, scored, lastRejected, calls, companies, predictions, ratios>>

----------------------------------------------------------------------------
\* Bounds of the model.
MaxConcRows == 1  \* rows of a file when two batches run concurrently
MaxRows == 1      \* rows of a file when batches run one after another
MaxJobs == 2      \* batches that run one after another
MaxKeyRows == 2   \* rows of a file when batches share symbols
LongRows == 6     \* rows of the file of a single long batch
MaxSubmits == 2   \* submissions to the job system

Workers == {"w1", "w2"}

\* Values the model uses for Python's None and float('nan').
None == "<None>"
NaN == "<NaN>"

\* Cells of the stock_symbol column: a symbol and an empty cell.
Cells == {"X", NaN}

\* A header cell that read_excel yields as an int (the number 2023), not
\* as a str.
Year == "<2023>"

\* Header rows of the staged files: names in mixed case, a header that
\* lacks the symbol column, one that lacks the name column, and a header
\* with both required columns and a numeric cell.
Headers ==
    { {"Stock_Symbol", "COMPANY_NAME", "sector", "Current_Ratio"},
      {"company_name", "sector"},
      {"STOCK_SYMBOL"},
      {"stock_symbol", "company_name", Year} }

\* What read_excel finds at file_path: a sheet with a header and nrows rows
\* (the cells of a row are drawn when the row is iterated), or something it
\* cannot parse.
Unreadable == [readable |-> FALSE]
Sheets(n) == [readable : {TRUE}, columns : Headers, nrows : 0..n]
Files(n) == Sheets(n) \cup {Unreadable}


----------------------------------------------------------------------------
\* Whether a header cell is a str; only a str has the method lower.
IsStr(c) == c # Year

\* The generator of line 22 calls c.lower() on every header cell before
\* issubset sees the set: a cell that is not a str raises AttributeError.
LowerRaises(cols) == \E c \in cols : ~IsStr(c)

\* str.lower on the column names that occur in Headers.
Lower(c) ==
    CASE c = "Stock_Symbol" -> "stock_symbol"
      [] c = "STOCK_SYMBOL" -> "stock_symbol"
      [] c = "COMPANY_NAME" -> "company_name"
      [] c = "Current_Ratio" -> "current_ratio"
      [] OTHER -> c

\* Line 21.
required_cols == {"stock_symbol", "company_name"}

\* Line 24: [c.lower() for c in df.columns]
LowerAll(cols) == { Lower(c) : c \in cols }

\* A check that is content with any one of the required columns.
HasAnyRequiredCol(cols) == required_cols \cap LowerAll(cols) # {}

\* Line 22: required_cols.issubset(set(c.lower() for c in df.columns))
HasRequiredCols(cols) == required_cols \subseteq LowerAll(cols)

\* The uploads that are submitted as jobs: one-row sheets and a file that
\* cannot be read.
JobFiles == { f \in Files(1) : f.readable => f.nrows = 1 }

\* str(value) for the cell values of the model.
Str(v) ==
    CASE v = NaN -> "nan"
      [] v = None -> "None"
      [] OTHER -> v

\* row.get(col) on a row whose cell in that column is c: the cell, or None
\* when the frame has no such column.
RowGet(w, col, c) ==
    IF col \in LowerAll(file[w].columns) THEN c ELSE None

\* Line 32: symbol = str(row.get("stock_symbol"))
SymbolOf(w, c) == Str(RowGet(w, "stock_symbol", c))
Symbol(w) == SymbolOf(w, cell[w])

\* The invocation worker w is running; the rows it writes carry it in
\* field by, so that the rows of one batch can be told from the others'.
Invocation(w) == <<w, job[w]>>

\* Cells of a ratio column: a number, a text that is no number, and an
\* empty cell.
RatioCells == {"0", "abc", NaN}

\* Lines 55-63: the declared ratio fields.
ratio_fields ==
    {"debt_to_equity_ratio", "current_ratio", "quick_ratio", "return_on_equity",
     "return_on_assets", "profit_margin", "interest_coverage",
     "fixed_asset_turnover", "total_debt_ebitda"}

\* pd.isna on a scalar.
isna(value) == value \in {NaN, None}

\* A helper that fills the gaps with zero.
safe_get_value_or_zero(w, column_name, c) ==
    LET value == RowGet(w, column_name, c)
    IN IF isna(value) THEN "0" ELSE value

\* Lines 48-52.
safe_get_value(w, column_name, c) ==
    LET value == RowGet(w, column_name, c)
    IN IF isna(value) THEN None ELSE value

\* Lines 54-64: the dict ratios of a row whose cell in each ratio column
\* the file has is c.
Ratios(w, c) == [f \in ratio_fields |-> safe_get_value(w, f, c)]

\* No scoring call was made for the current row yet.
NotScored == [called |-> FALSE]

\* A message that also names the staged path, which differs from one
\* staging of an upload to the next.
SchemaErrorWithPath(w) ==
    [message |-> <<"Excel must contain columns", Invocation(w)>>,
     columns |-> required_cols]

\* Line 23: the ValueError and the columns its message names.
SchemaError(w) ==
    [message |-> "Excel must contain columns", columns |-> required_cols]

\* No run was rejected, or the last run was not.
NoRejection == [seen |-> FALSE]

\* Line 81: errors[:5]
MaxErrors == 5

\* The slice errors[-5:], which keeps the newest entries.
TakeLast(s, n) == SubSeq(s, IF Len(s) < n THEN 1 ELSE Len(s) - n + 1, Len(s))

Take(s, n) == SubSeq(s, 1, IF Len(s) < n THEN Len(s) ELSE n)

\* One session for the whole process, which every invocation uses.
SharedSession(w) == "w1"

\* Line 14: db = session_factory().  SessionLocal is a sessionmaker
\* (database.py line 138), so each call makes a session of its own; the
\* model names the session after the worker whose invocation made it.
SessionOf(w) == w

\* The calls of an invocation on its session db: how often it was made
\* (line 14) and closed (line 85), whether it was used after the close, and
\* the commits (line 69) and rollbacks (line 72) of the current record.
NoCalls == [acquired |-> 0, closes |-> 0, late |-> FALSE, commits |-> 0, rollbacks |-> 0]

\* A query, flush, commit or rollback on the session.
Used(c) == [c EXCEPT !.late = @ \/ c.closes > 0]

\* A session as session_factory() returns it.
EmptySession == [open |-> TRUE, companies |-> {}, predictions |-> {}, ratios |-> {}]
ClosedSession == [open |-> FALSE, companies |-> {}, predictions |-> {}, ratios |-> {}]

\* Rows a query of the session of w sees: committed rows and its own flushed rows.
Visible(w) == companies \cup sess[SessionOf(w)].companies

\* The id that stands for "no company" (None); real ids start at 1.
NoCompany == 0

\* CompanyService.get_company_by_symbol: the first company with that symbol,
\* or None.
get_company_by_symbol(w, symbol) ==
    LET found == { c \in Visible(w) : c.symbol = symbol }
    IN IF found = {} THEN NoCompany
       ELSE (CHOOSE c \in found : \A o \in found : c.id <= o.id).id

\* A pipeline that creates the company whatever the lookup returned.
NeedsCreateAlways(c) == TRUE

\* Line 38: if not company
NeedsCreate(c) == c = NoCompany

\* The unique index on companies.symbol (database.py line 65): an INSERT of
\* symbol fails when a committed row has it, and waits while another
\* session holds an uncommitted row with it.
UniqueViolation(symbol) == \E c \in companies : c.symbol = symbol
InsertBlocked(w, symbol) ==
    \E o \in { SessionOf(x) : x \in Workers } \ {SessionOf(w)} :
        \E c \in sess[o].companies : c.symbol = symbol

\* The primary key the database gives a new company (database.py line 64).
AllCompanyIds ==
    { c.id : c \in companies \cup UNION { sess[SessionOf(w)].companies : w \in Workers } }
NewId == CHOOSE n \in 1..(Cardinality(AllCompanyIds) + 1) : n \notin AllCompanyIds

NoResult == [returned |-> FALSE]

\* A summary that takes failed from the length of the reported error list.
SummaryFailedFromList(w) ==
    [returned |-> TRUE, processed |-> processed[w], succeeded |-> succeeded[w],
     failed |-> Len(Take(errors[w], MaxErrors)),
     errors |-> Take(errors[w], MaxErrors)]

\* Lines 77-82: the returned dict.
Summary(w) ==
    [returned |-> TRUE, processed |-> processed[w], succeeded |-> succeeded[w],
     failed |-> failed[w], errors |-> Take(errors[w], MaxErrors)]

\* An entry that numbers the rows from 0, as an index into the frame would.
ErrorTextFromZero(n, e) == [prefix |-> "Row", n |-> n - 1, cause |-> e]

\* Line 74: f"Row {processed}: {str(e)}"
ErrorText(n, e) == [prefix |-> "Row", n |-> n, cause |-> e]

----------------------------------------------------------------------------
Init ==
    /\ pc = [w \in Workers |-> "idle"]
    /\ file = [w \in Workers |-> Unreadable]
    /\ fileExists = [w \in Workers |-> FALSE]
    /\ job = [w \in Workers |-> 0]
    /\ cell = [w \in Workers |-> None]
    /\ processed = [w \in Workers |-> 0]
    /\ succeeded = [w \in Workers |-> 0]
    /\ failed = [w \in Workers |-> 0]
    /\ errors = [w \in Workers |-> <<>>]
    /\ company = [w \in Workers |-> NoCompany]
    /\ cause = [w \in Workers |-> None]
    /\ sess = [w \in Workers |-> ClosedSession]
    /\ raised = [w \in Workers |-> None]
    /\ swallowed = [w \in Workers |-> {}]
    /\ result = [w \in Workers |-> NoResult]
    /\ status = [w \in Workers |-> "pending"]
    /\ detail = [w \in Workers |-> None]
    /\ scored = [w \in Workers |-> NotScored]
    /\ lastRejected = NoRejection
    /\ queue = <<>>
    /\ handles = <<>>
    /\ delivered = {}
    /\ active = {}
    /\ calls = [w \in Workers |-> NoCalls]
    /\ companies = {}
    /\ predictions = {}
    /\ ratios = {}

\* Lines 13-18: process_bulk_predictions starts on the upload f staged at
\* file_path, in a worker that has run fewer than k jobs.
Invoke(w, f, k) ==
    /\ pc[w] = "idle"
    /\ job[w] < k
    /\ file' = [file EXCEPT ![w] = f]
    /\ fileExists' = [fileExists EXCEPT ![w] = TRUE]
    /\ job' = [job EXCEPT ![w] = @ + 1]
    /\ sess' = [sess EXCEPT ![SessionOf(w)] = EmptySession]
    /\ processed' = [processed EXCEPT ![w] = 0]
    /\ succeeded' = [succeeded EXCEPT ![w] = 0]
    /\ failed' = [failed EXCEPT ![w] = 0]
    /\ errors' = [errors EXCEPT ![w] = <<>>]
    /\ raised' = [raised EXCEPT ![w] = None]
    /\ detail' = [detail EXCEPT ![w] = None]
    /\ swallowed' = [swallowed EXCEPT ![w] = {}]
    /\ result' = [result EXCEPT ![w] = NoResult]
    /\ status' = [status EXCEPT ![w] = "running"]
    /\ pc' = [pc EXCEPT ![w] = "read"]
    /\ calls' = [calls EXCEPT ![w] = [NoCalls EXCEPT !.acquired = 1]]
    /\ UNCHANGED <<cell, scored, company, cause, lastRejected, tables>>

\* The function is called on a staged upload without going through the
\* queue.
Start(w, f, k) ==
    /\ Invoke(w, f, k)
    /\ UNCHANGED jobsys

\* Lines 20-24: read the file, lower-case the header cells for the check
\* (AttributeError on a cell that is not a str), check the required columns
\* (ValueError), lower-case the columns of the frame.
Validate(w) ==
    /\ pc[w] = "read"
    /\ IF ~file[w].readable
       THEN /\ raised' = [raised EXCEPT ![w] = "ReadError"]
            /\ pc' = [pc EXCEPT ![w] = "finally"]
            /\ UNCHANGED detail
       ELSE IF LowerRaises(file[w].columns)
       THEN /\ raised' = [raised EXCEPT ![w] = "AttributeError"]
            /\ pc' = [pc EXCEPT ![w] = "finally"]
            /\ UNCHANGED detail
       ELSE IF ~HasRequiredCols(file[w].columns)
       THEN /\ raised' = [raised EXCEPT ![w] = "ValueError"]
            /\ detail' = [detail EXCEPT ![w] = SchemaError(w)]
            /\ pc' = [pc EXCEPT ![w] = "finally"]
       ELSE /\ pc' = [pc EXCEPT ![w] = "loop"]
            /\ UNCHANGED <<raised, detail>>
    /\ UNCHANGED <<swallowed, file, fileExists, job, cell, counters, company, cause, sess,
                   result, status, scored, lastRejected, calls, jobsys, tables>>

\* The end of a loop iteration.  row, company and e are not read again
\* before the next iteration assigns them (e is unbound when the handler
\* ends), so the model forgets them here.
EndRow(w) ==
    /\ cell' = [cell EXCEPT ![w] = None]
    /\ company' = [company EXCEPT ![w] = NoCompany]
    /\ cause' = [cause EXCEPT ![w] = None]
    /\ scored' = [scored EXCEPT ![w] = NotScored]

\* The handler of line 71 is entered with exception e.
Raise(w, e) ==
    /\ cause' = [cause EXCEPT ![w] = e]
    /\ pc' = [pc EXCEPT ![w] = "except"]

\* Lines 29-38: the next row of df.iterrows(), with stock_symbol cell c, and
\* the lookup of its company.  The query of line 37 is inside the try of
\* line 31 and may raise, which enters the handler with no company bound.
NextRow(w, c) ==
    /\ pc[w] = "loop"
    /\ calls' = [calls EXCEPT ![w] = Used([@ EXCEPT !.commits = 0, !.rollbacks = 0])]
    /\ processed[w] < file[w].nrows
    /\ processed' = [processed EXCEPT ![w] = @ + 1]
    /\ cell' = [cell EXCEPT ![w] = c]
    /\ \/ /\ company' = [company EXCEPT ![w] = get_company_by_symbol(w, SymbolOf(w, c))]
          /\ pc' = [pc EXCEPT ![w] =
                      IF NeedsCreate(company'[w]) THEN "create" ELSE "score"]
          /\ UNCHANGED cause
       \/ /\ Raise(w, "OperationalError")
          /\ UNCHANGED company
    /\ UNCHANGED <<swallowed, file, fileExists, job, succeeded, failed, errors,
                   sess, raised, result, status, detail, scored, lastRejected,
                   jobsys, tables>>

\* Lines 39-45: CompanyCreate(...) and create_company, inside the try of
\* line 31.  Either may raise before anything is flushed (a validation
\* error of the schema, a lost connection).  Otherwise the INSERT waits
\* for a concurrent uncommitted INSERT of the same symbol and fails on the
\* unique index.
Create(w) ==
    /\ pc[w] = "create"
    /\ calls' = [calls EXCEPT ![w] = Used(@)]
    /\ \/ /\ Raise(w, "OperationalError")
          /\ UNCHANGED <<company, sess>>
       \/ /\ ~InsertBlocked(w, Symbol(w))
          /\ IF UniqueViolation(Symbol(w))
             THEN /\ Raise(w, "IntegrityError")
                  /\ UNCHANGED <<company, sess>>
             ELSE /\ sess' = [sess EXCEPT ![SessionOf(w)].companies =
                                @ \cup {[id |-> NewId, symbol |-> Symbol(w), by |-> Invocation(w)]}]
                  /\ company' = [company EXCEPT ![w] = NewId]
                  /\ pc' = [pc EXCEPT ![w] = "score"]
                  /\ UNCHANGED cause
    /\ UNCHANGED <<swallowed, file, fileExists, job, cell, counters, raised, result,
                   status, detail, scored, lastRejected, jobsys, tables>>

\* The row a save adds to the session for the current input row.
NewRow(w) == [company_id |-> company[w], by |-> Invocation(w), row |-> processed[w]]

\* A loop body that commits once the prediction is saved and leaves the
\* ratios of the record unsaved.
ScoreAndSaveHalf(w, r) ==
    /\ pc[w] = "score"
    /\ calls' = [calls EXCEPT ![w] = Used(@)]
    /\ scored' = [scored EXCEPT ![w] = [called |-> TRUE, cell |-> r, ratios |-> Ratios(w, r)]]
    /\ \/ /\ Raise(w, "ScoringError")
          /\ UNCHANGED sess
       \/ /\ Raise(w, "OperationalError")
          /\ UNCHANGED sess
       \/ /\ sess' = [sess EXCEPT ![SessionOf(w)].predictions = @ \cup {NewRow(w)}]
          /\ pc' = [pc EXCEPT ![w] = "commit"]
          /\ UNCHANGED cause
    /\ UNCHANGED <<swallowed, file, fileExists, job, cell, counters, company, raised,
                   result, status, detail, lastRejected, jobsys, tables>>

\* Lines 54-68: build the ratios, score them, save the prediction and the
\* ratios into the session.  Each of the three calls may raise.
ScoreAndSave(w, r) ==
    /\ pc[w] = "score"
    /\ calls' = [calls EXCEPT ![w] = Used(@)]
    /\ scored' = [scored EXCEPT ![w] = [called |-> TRUE, cell |-> r, ratios |-> Ratios(w, r)]]
    /\ \/ /\ Raise(w, "ScoringError")
          /\ UNCHANGED sess
       \/ /\ Raise(w, "OperationalError")
          /\ UNCHANGED sess
       \/ /\ Raise(w, "OperationalError")
          /\ sess' = [sess EXCEPT ![SessionOf(w)].predictions = @ \cup {NewRow(w)}]
       \/ /\ sess' = [sess EXCEPT ![SessionOf(w)].predictions = @ \cup {NewRow(w)},
                                 ![SessionOf(w)].ratios = @ \cup {NewRow(w)}]
          /\ pc' = [pc EXCEPT ![w] = "commit"]
          /\ UNCHANGED cause
    /\ UNCHANGED <<swallowed, file, fileExists, job, cell, counters, company, raised,
                   result, status, detail, lastRejected, jobsys, tables>>

\* What Session.commit publishes: the session's uncommitted rows, at once.
Published(w) ==
    [companies |-> sess[SessionOf(w)].companies, predictions |-> sess[SessionOf(w)].predictions,
     ratios |-> sess[SessionOf(w)].ratios]

\* Lines 69-70: commit_transaction, then succeeded += 1.
Commit(w) ==
    /\ pc[w] = "commit"
    /\ calls' = [calls EXCEPT ![w] = Used([@ EXCEPT !.commits = @ + 1])]
    /\ \/ /\ companies' = companies \cup Published(w).companies
          /\ predictions' = predictions \cup Published(w).predictions
          /\ ratios' = ratios \cup Published(w).ratios
          /\ sess' = [sess EXCEPT ![SessionOf(w)] = EmptySession]
          /\ succeeded' = [succeeded EXCEPT ![w] = @ + 1]
          /\ pc' = [pc EXCEPT ![w] = "loop"]
          /\ EndRow(w)
       \/ /\ Raise(w, "OperationalError")
          /\ UNCHANGED <<tables, sess, succeeded, cell, company, scored>>
    /\ UNCHANGED <<swallowed, file, fileExists, job, processed, failed, errors,
                   raised, result, status, detail, lastRejected, jobsys>>

\* A handler that leaves the session as the failed row left it.
NotRolledBack(s) == s

\* Line 72: db.rollback() drops the uncommitted rows of session s.
RolledBack(s) == [s EXCEPT !.companies = {}, !.predictions = {}, !.ratios = {}]

\* A handler whose rollback undoes the whole batch: it also removes the rows
\* the invocation committed for earlier records.
RollbackBatch(w) ==
    /\ pc[w] = "except"
    /\ calls' = [calls EXCEPT ![w] = Used([@ EXCEPT !.rollbacks = @ + 1])]
    /\ sess' = [sess EXCEPT ![SessionOf(w)] = RolledBack(@)]
    /\ companies' = { c \in companies : c.by # Invocation(w) }
    /\ predictions' = { r \in predictions : r.by # Invocation(w) }
    /\ ratios' = { r \in ratios : r.by # Invocation(w) }
    /\ failed' = [failed EXCEPT ![w] = @ + 1]
    /\ errors' = [errors EXCEPT ![w] = Append(@, ErrorText(processed[w], cause[w]))]
    /\ pc' = [pc EXCEPT ![w] = "loop"]
    /\ EndRow(w)
    /\ UNCHANGED <<swallowed, file, fileExists, job, processed, succeeded,
                   raised, result, status, detail, lastRejected, jobsys>>

\* Lines 71-75: the handler of a failed row.  db.rollback() may itself
\* raise, and then the exception leaves the loop and the function.
Rollback(w) ==
    /\ pc[w] = "except"
    /\ calls' = [calls EXCEPT ![w] = Used([@ EXCEPT !.rollbacks = @ + 1])]
    /\ \/ /\ sess' = [sess EXCEPT ![SessionOf(w)] = RolledBack(@)]
          /\ failed' = [failed EXCEPT ![w] = @ + 1]
          /\ errors' = [errors EXCEPT ![w] = Append(@, ErrorText(processed[w], cause[w]))]
          /\ pc' = [pc EXCEPT ![w] = "loop"]
          /\ EndRow(w)
          /\ UNCHANGED raised
       \/ /\ raised' = [raised EXCEPT ![w] = "RollbackError"]
          /\ pc' = [pc EXCEPT ![w] = "finally"]
          /\ UNCHANGED <<sess, failed, errors, cell, company, cause, scored>>
    /\ UNCHANGED <<swallowed, file, fileExists, job, processed, succeeded, result, status,
                   detail, lastRejected, jobsys, tables>>

\* A function that ends after the loop without a return statement.
ReturnNothing(w) ==
    /\ pc[w] = "loop"
    /\ processed[w] >= file[w].nrows
    /\ pc' = [pc EXCEPT ![w] = "finally"]
    /\ UNCHANGED <<swallowed, file, fileExists, job, cell, counters, company, cause, sess,
                   raised, result, status, detail, scored, lastRejected, calls, jobsys, tables>>

\* Lines 77-82: the rows are exhausted, the summary is returned.
Return(w) ==
    /\ pc[w] = "loop"
    /\ processed[w] >= file[w].nrows
    /\ result' = [result EXCEPT ![w] = Summary(w)]
    /\ pc' = [pc EXCEPT ![w] = "finally"]
    /\ UNCHANGED <<swallowed, file, fileExists, job, cell, counters, company, cause, sess,
                   raised, status, detail, scored, lastRejected, calls, jobsys, tables>>

\* A cleanup that removes the file only when the function returns normally.
FileLeftOnError(w, removed) == fileExists[w] /\ (~removed \/ raised[w] # None)

\* Lines 88-90, reached on every path through the finally block: the file
\* is at file_path afterwards only if os.remove did not go through.
FileLeft(w, removed) == fileExists[w] /\ ~removed

\* A finally block without the two inner try statements: an exception of
\* db.close() leaves the function in place of its outcome, and os.remove
\* is not reached.
CleanupUnguarded(w, closed, removed) ==
    /\ pc[w] = "finally"
    /\ calls' = [calls EXCEPT ![w].closes = @ + 1]
    /\ sess' = [sess EXCEPT ![SessionOf(w)] = [ClosedSession EXCEPT !.open = ~closed]]
    /\ fileExists' = [fileExists EXCEPT ![w] = IF closed THEN FileLeft(w, removed) ELSE @]
    /\ swallowed' = [swallowed EXCEPT ![w] =
                       IF closed /\ ~removed THEN {"remove"} ELSE {}]
    /\ raised' = [raised EXCEPT ![w] = IF closed THEN @ ELSE "CloseError"]
    /\ result' = [result EXCEPT ![w] = IF closed THEN @ ELSE NoResult]
    /\ pc' = [pc EXCEPT ![w] = "done"]
    /\ UNCHANGED <<file, job, cell, counters, company, cause, status, detail, scored,
                   lastRejected, jobsys, tables>>

\* A function that closes the session after the loop, on the way to the
\* return, and not in the finally block.
CleanupOnReturnOnly(w, closed, removed) ==
    /\ pc[w] = "finally"
    /\ calls' = [calls EXCEPT ![w].closes = IF raised[w] = None THEN @ + 1 ELSE @]
    /\ sess' = [sess EXCEPT ![SessionOf(w)] =
                  IF raised[w] = None THEN [ClosedSession EXCEPT !.open = ~closed] ELSE @]
    /\ fileExists' = [fileExists EXCEPT ![w] = FileLeft(w, removed)]
    /\ swallowed' = [swallowed EXCEPT ![w] =
                       (IF closed \/ raised[w] # None THEN {} ELSE {"close"})
                       \cup (IF removed THEN {} ELSE {"remove"})]
    /\ pc' = [pc EXCEPT ![w] = "done"]
    /\ UNCHANGED <<file, job, cell, counters, company, cause, raised, result,
                   status, detail, scored, lastRejected, jobsys, tables>>

\* Lines 83-92: db.close() and os.remove(file_path); an exception of either
\* is swallowed.  closed and removed tell whether the call went through.
\* The uncommitted rows of the session are lost either way.
Cleanup(w, closed, removed) ==
    /\ pc[w] = "finally"
    /\ calls' = [calls EXCEPT ![w].closes = @ + 1]
    /\ sess' = [sess EXCEPT ![SessionOf(w)] = [ClosedSession EXCEPT !.open = ~closed]]
    /\ fileExists' = [fileExists EXCEPT ![w] = FileLeft(w, removed)]
    /\ swallowed' = [swallowed EXCEPT ![w] =
                       (IF closed THEN {} ELSE {"close"})
                       \cup (IF removed THEN {} ELSE {"remove"})]
    /\ pc' = [pc EXCEPT ![w] = "done"]
    /\ UNCHANGED <<file, job, cell, counters, company, cause, raised, result,
                   status, detail, scored, lastRejected, jobsys, tables>>

\* The job system records the outcome of the task: success with the
\* returned summary, or failure when the function raised.  The frame of the
\* function is gone.
Finish(w) ==
    /\ pc[w] = "done"
    /\ calls' = [calls EXCEPT ![w] = NoCalls]
    /\ status' = [status EXCEPT ![w] =
                    IF raised[w] = None THEN "succeeded" ELSE "failed"]
    /\ pc' = [pc EXCEPT ![w] = "idle"]
    /\ file' = [file EXCEPT ![w] = Unreadable]
    /\ cell' = [cell EXCEPT ![w] = None]
    /\ processed' = [processed EXCEPT ![w] = 0]
    /\ succeeded' = [succeeded EXCEPT ![w] = 0]
    /\ failed' = [failed EXCEPT ![w] = 0]
    /\ errors' = [errors EXCEPT ![w] = <<>>]
    /\ company' = [company EXCEPT ![w] = NoCompany]
    /\ cause' = [cause EXCEPT ![w] = None]
    /\ sess' = [sess EXCEPT ![SessionOf(w)] = ClosedSession]
    /\ swallowed' = [swallowed EXCEPT ![w] = {}]
    /\ scored' = [scored EXCEPT ![w] = NotScored]
    /\ lastRejected' = IF raised[w] = "ValueError"
                       THEN [seen |-> TRUE, file |-> file[w], raised |-> raised[w],
                             detail |-> detail[w]]
                       ELSE NoRejection
    /\ UNCHANGED <<fileExists, job, raised, result, detail, jobsys, tables>>

\* What the submitter gets back: the id of the queued task, or the error.
Accepted(id) == [task_id |-> id, status |-> "Task queued successfully"]
Rejected == [status |-> "failed", message |-> "Celery worker connectivity failed"]

\* A dispatcher that hands the job over only when a worker listens, and
\* reports it as queued all the same.
SubmitIfListening(f, ok) ==
    /\ Len(handles) < MaxSubmits
    /\ LET id == Len(handles) + 1
       IN IF ok
          THEN /\ queue' = IF active = {} THEN queue
                           ELSE Append(queue, [id |-> id, file |-> f])
               /\ handles' = Append(handles, Accepted(id))
          ELSE /\ queue' = queue
               /\ handles' = Append(handles, Rejected)
    /\ UNCHANGED <<delivered, active, pipeline>>

\* A dispatcher whose error comes after the message went out.
SubmitThenFail(f, ok) ==
    /\ Len(handles) < MaxSubmits
    /\ LET id == Len(handles) + 1
       IN /\ queue' = Append(queue, [id |-> id, file |-> f])
          /\ handles' = Append(handles, IF ok THEN Accepted(id) ELSE Rejected)
    /\ UNCHANGED <<delivered, active, pipeline>>

\* app.py lines 275-293: celery_app.send_task puts the task on the broker
\* and its id is returned; when the broker cannot be reached (ok is false)
\* send_task raises and the error is returned instead.  Neither depends on
\* a worker listening.
Submit(f, ok) ==
    /\ Len(handles) < MaxSubmits
    /\ LET id == Len(handles) + 1
       IN IF ok
          THEN /\ queue' = Append(queue, [id |-> id, file |-> f])
               /\ handles' = Append(handles, Accepted(id))
          ELSE /\ queue' = queue
               /\ handles' = Append(handles, Rejected)
    /\ UNCHANGED <<delivered, active, pipeline>>

\* A worker process comes up and listens on the queue.
WorkerUp(w) ==
    /\ w \notin active
    /\ active' = active \cup {w}
    /\ UNCHANGED <<queue, handles, delivered, pipeline>>

\* An idle listening worker takes the oldest job of the queue and calls
\* process_bulk_predictions on its file.
Deliver(w, k) ==
    /\ w \in active
    /\ queue # <<>>
    /\ Invoke(w, Head(queue).file, k)
    /\ queue' = Tail(queue)
    /\ delivered' = delivered \cup {Head(queue).id}
    /\ UNCHANGED <<handles, active>>

\* One step of worker w inside an invocation or at its end.
Run(w) ==
    \/ Validate(w)
    \/ \E c \in Cells : NextRow(w, c)
    \/ Create(w)
    \/ \E r \in RatioCells : ScoreAndSave(w, r)
    \/ Commit(w)
    \/ Rollback(w)
    \/ Return(w)
    \/ \E closed, removed \in BOOLEAN : Cleanup(w, closed, removed)
    \/ Finish(w)

\* One step of worker w, which runs at most k jobs on files of at most n
\* rows.
Step(w, n, k) ==
    \/ \E f \in Files(n) : Start(w, f, k)
    \/ Run(w)

\* Each worker runs one invocation, concurrently with the other.
Next == \E w \in Workers : Step(w, MaxConcRows, 1)

Spec == Init /\ [][Next]_vars

\* One worker runs batches one after another.
NextSeq == Step("w1", MaxRows, MaxJobs)

SpecSeq == Init /\ [][NextSeq]_vars

\* One worker runs batches of several rows one after another, so that a
\* symbol recurs within a batch and from one batch to the next.
NextBatches == Step("w1", MaxKeyRows, MaxJobs)

SpecBatches == Init /\ [][NextBatches]_vars

\* One worker runs one long batch.
NextLong == Step("w1", LongRows, 1)

SpecLong == Init /\ [][NextLong]_vars

\* The workers that take jobs from the queue.
Pool == {"w1"}

\* Jobs are submitted to the queue and a worker that has come up takes
\* them one at a time.  A worker that can take a step of its invocation
\* takes one, and a listening idle worker takes a job that waits.
NextJobs ==
    \/ \E f \in JobFiles, ok \in BOOLEAN : Submit(f, ok)
    \/ \E w \in Pool : WorkerUp(w)
    \/ \E w \in Pool : Deliver(w, MaxSubmits)
    \/ \E w \in Pool : Run(w)

SpecJobs ==
    /\ Init
    /\ [][NextJobs]_vars
    /\ \A w \in Pool : WF_vars(Deliver(w, MaxSubmits)) /\ WF_vars(Run(w))

----------------------------------------------------------------------------
\* Properties of the pipeline.

Min(a, b) == IF a < b THEN a ELSE b

\* The rows of table T written by invocation inv.
RowsBy(T, inv) == { r \in T : r.by = inv }

\* The sheet f lacks the entity key column or the display name column,
\* whatever the case of its header.
MissingColumn(f) ==
    /\ f.readable
    /\ \E r \in {"stock_symbol", "company_name"} : \A c \in f.columns : Lower(c) # r

\* C1: at every record boundary of the loop processed = succeeded + failed,
\* and a returned summary has processed = succeeded + failed with processed
\* equal to the number of rows of the file.
C1_CountsAddUp ==
    \A w \in Workers :
        /\ pc[w] = "loop" => processed[w] = succeeded[w] + failed[w]
        /\ result[w].returned =>
            result[w].processed = result[w].succeeded + result[w].failed
        /\ (result[w].returned /\ pc[w] \in {"finally", "done"}) =>
            result[w].processed = file[w].nrows

\* A batch of more rows than the error list holds returned a summary with
\* failures and successes.
C1_Witness ==
    \E w \in Workers :
        /\ pc[w] = "done"
        /\ result[w].returned
        /\ result[w].processed > MaxErrors
        /\ result[w].failed > 1
        /\ result[w].succeeded > 1

\* C2: for a file with a valid header, whichever rows fail, the
\* invocation ends with a summary over all rows and without an exception.
C2_NeverAborts ==
    \A w \in Workers :
        (pc[w] = "done" /\ file[w].readable /\ ~MissingColumn(file[w])) =>
            /\ raised[w] = None
            /\ result[w].returned
            /\ result[w].processed = file[w].nrows

\* C3: the committed tables never hold a prediction without the ratio row
\* of the same input row or the reverse; a row counted as failed has
\* neither; a returned summary counts as succeeded exactly the predictions
\* and the ratio rows its invocation committed.
C3_AtomicPersistence ==
    /\ \A p \in predictions :
        \E r \in ratios : r.by = p.by /\ r.row = p.row /\ r.company_id = p.company_id
    /\ \A r \in ratios :
        \E p \in predictions : p.by = r.by /\ p.row = r.row /\ p.company_id = r.company_id
    /\ \A w \in Workers : \A i \in 1..Len(errors[w]) :
        \A r \in RowsBy(predictions \cup ratios, Invocation(w)) : r.row # errors[w][i].n
    /\ \A w \in Workers :
        (result[w].returned /\ pc[w] \in {"finally", "done"}) =>
            /\ Cardinality(RowsBy(predictions, Invocation(w))) = result[w].succeeded
            /\ Cardinality(RowsBy(ratios, Invocation(w))) = result[w].succeeded

\* A row failed after its prediction was saved, a later row of the batch
\* was committed, and the summary was returned.
C3_Witness ==
    \E w \in Workers :
        /\ pc[w] = "done"
        /\ result[w].returned
        /\ result[w].failed > 0
        /\ result[w].errors[1].n = 1
        /\ RowsBy(predictions, Invocation(w)) # {}

\* C4: committed rows are never removed, and the step that leaves the
\* handler of a failed row changes no committed row.
C4_RollbackKeepsCommitted ==
    [][ /\ companies \subseteq companies'
        /\ predictions \subseteq predictions'
        /\ ratios \subseteq ratios'
        /\ \A w \in Workers :
            (pc[w] = "except" /\ pc'[w] # "except") =>
                <<companies, predictions, ratios>>' = <<companies, predictions, ratios>>
      ]_vars

\* The first row of a batch was committed with a new company, and a later
\* row of the batch failed and was rolled back.
C4_Witness ==
    \E w \in Workers :
        /\ pc[w] = "loop"
        /\ succeeded[w] > 0
        /\ failed[w] > 0
        /\ errors[w][1].n > 1
        /\ RowsBy(companies, Invocation(w)) # {}
        /\ RowsBy(predictions, Invocation(w)) # {}
        /\ RowsBy(ratios, Invocation(w)) # {}

C6_RaceBothSucceed ==
    /\ \A c1, c2 \in companies : c1.symbol = c2.symbol => c1 = c2
    /\ \A w \in Workers :
        (pc[w] = "except" /\ Symbol(w) = "X") => cause[w] # "IntegrityError"

\* C7: with batches run one after another there is at most one company per
\* symbol, a company is created only for a symbol no visible company has,
\* and a row whose symbol exists is handled with that company.
C7_LookupOrCreate ==
    /\ \A w \in Workers : \A c1, c2 \in Visible(w) : c1.symbol = c2.symbol => c1 = c2
    /\ \A w \in Workers :
        pc[w] = "create" => \A c \in Visible(w) : c.symbol # Symbol(w)
    /\ \A w \in Workers :
        pc[w] \in {"score", "commit"} =>
            \E c \in Visible(w) : c.symbol = Symbol(w) /\ c.id = company[w]

\* Both cases in one state.  An earlier batch created a company at its
\* first row and its second row, of the same symbol, was saved with that
\* company (the key was created earlier in the same batch); and a row of
\* the running batch has now resolved to that company (the key was created
\* by an earlier batch).  It is the only company of its symbol.
C7_Witness ==
    \E w \in Workers :
        /\ pc[w] = "score"
        /\ \E c \in companies :
            /\ c.id = company[w] /\ c.symbol = Symbol(w) /\ c.by # Invocation(w)
            /\ [company_id |-> c.id, by |-> c.by, row |-> 1] \in predictions
            /\ [company_id |-> c.id, by |-> c.by, row |-> 2] \in predictions
            /\ \A d \in companies : d.symbol = c.symbol => d = c

\* C8: the errors of a returned summary are the first min(failed, 5)
\* entries of the failures in input order.
C8_ErrorListBounded ==
    \A w \in Workers :
        (result[w].returned /\ pc[w] \in {"finally", "done"}) =>
            /\ Len(errors[w]) = result[w].failed
            /\ Len(result[w].errors) = Min(result[w].failed, 5)
            /\ \A i \in 1..Len(result[w].errors) : result[w].errors[i] = errors[w][i]
            /\ \A i, j \in 1..Len(errors[w]) : i < j => errors[w][i].n < errors[w][j].n

\* A summary was returned after more than five rows failed.
C8_Witness ==
    \E w \in Workers :
        /\ pc[w] = "done"
        /\ result[w].returned
        /\ result[w].failed > 5
        /\ Len(result[w].errors) = 5

\* C9 as stated: once the function has finished, the staged file is gone.
C9_FileAlwaysGone ==
    \A w \in Workers : pc[w] = "done" => ~fileExists[w]

\* C9, amended: once the function has finished, by return or by raising,
\* the staged file is gone unless os.remove itself raised, and that
\* exception was passed over.
C9_FileGoneUnlessRemoveFailed ==
    \A w \in Workers :
        pc[w] = "done" => (fileExists[w] <=> "remove" \in swallowed[w])

\* The function raised the schema error and the staged file is gone.
C9_Witness ==
    \E w \in Workers :
        /\ pc[w] = "done"
        /\ raised[w] = "ValueError"
        /\ ~fileExists[w]

\* C10: an invocation on a readable file ends either with the schema error
\* and no summary, or with a summary and no exception.
C10_TwoOutcomes ==
    \A w \in Workers :
        (pc[w] = "done" /\ file[w].readable) =>
            \/ raised[w] = "ValueError" /\ ~result[w].returned
            \/ raised[w] = None /\ result[w].returned

\* C11: the step through the finally block leaves the returned summary and
\* the propagating exception as they were, whether or not db.close() and
\* os.remove went through; and when db.close() failed, the file was
\* removed or its removal was tried and failed.
C11_CleanupKeepsOutcome ==
    [][ \A w \in Workers :
          (pc[w] = "finally" /\ pc'[w] = "done") =>
              /\ result'[w] = result[w]
              /\ raised'[w] = raised[w]
              /\ "close" \in swallowed'[w] =>
                    (~fileExists'[w] \/ "remove" \in swallowed'[w])
      ]_vars

\* db.close() failed after a summary was returned, and the file is gone.
C11_Witness ==
    \E w \in Workers :
        /\ pc[w] = "done"
        /\ "close" \in swallowed[w]
        /\ ~fileExists[w]
        /\ result[w].returned
        /\ result[w].failed > 0

\* C18 as stated: every entry of the error list reads "Record <n>: <cause>".
C18_EntriesSayRecord ==
    \A w \in Workers : \A i \in 1..Len(errors[w]) : errors[w][i].prefix = "Record"

\* C18, amended: the entry appended for a failed row reads
\* "Row <n>: <cause>", n being the value of processed, the 1-based position
\* of the row, and cause the text of the exception caught.
C18_EntriesSayRow ==
    [][ \A w \in Workers :
          Len(errors'[w]) = Len(errors[w]) + 1 =>
              /\ SubSeq(errors'[w], 1, Len(errors[w])) = errors[w]
              /\ errors'[w][Len(errors'[w])].prefix = "Row"
              /\ errors'[w][Len(errors'[w])].n = processed[w]
              /\ errors'[w][Len(errors'[w])].n \in 1..file[w].nrows
              /\ errors'[w][Len(errors'[w])].cause = cause[w]
              /\ cause[w] # None
      ]_vars

\* The second row of a batch failed and its entry was appended.
C18_Witness ==
    \E w \in Workers :
        /\ pc[w] = "loop"
        /\ Len(errors[w]) = 1
        /\ errors[w][1].n = 2

\* C19: no not-a-number value and no string rendering of one is handed to
\* the company lookup or to create_company, nor stored as a symbol.
C19_NoNaNReachesStore ==
    /\ \A w \in Workers :
        pc[w] \in {"create", "score", "commit"} => Symbol(w) \notin {NaN, "nan"}
    /\ \A w \in Workers : \A c \in Visible(w) : c.symbol \notin {NaN, "nan"}

\* C12: for every declared ratio field the value in the dict handed to
\* predict_default_probability is None whenever the file has no such column
\* or the cell is NaN; it is then neither zero nor NaN nor the text "nan".
C12_AbsentMarker ==
    \A w \in Workers :
        scored[w].called =>
            \A f \in ratio_fields :
                LET v == scored[w].ratios[f]
                    gap == \/ \A c \in file[w].columns : Lower(c) # f
                           \/ scored[w].cell = NaN
                IN /\ gap => v = None
                   /\ v \notin {NaN, "nan"}
                   /\ v = "0" => (~gap /\ scored[w].cell = "0")

\* A row with an empty cell in a ratio column of the file was scored and
\* saved.
C12_Witness ==
    \E w \in Workers :
        /\ pc[w] = "commit"
        /\ scored[w].called
        /\ scored[w].cell = NaN
        /\ \E c \in file[w].columns : Lower(c) = "current_ratio"

\* C16: a readable file is accepted (line 22 neither raises nor finds a
\* column missing, and the loop is entered) exactly when no required column
\* is missing, whatever the case of its header; the columns of an accepted
\* file are looked up by their lower-cased names; and the error of a
\* rejected file carries the set of the missing columns.
C16_SchemaValidation ==
    \A w \in Workers :
        (pc[w] \notin {"idle", "read"} /\ file[w].readable) =>
            LET missing == { r \in {"stock_symbol", "company_name"} :
                               \A c \in file[w].columns : Lower(c) # r }
                rejected == raised[w] \in {"ValueError", "AttributeError"}
            IN /\ ~rejected <=> missing = {}
               /\ (pc[w] = "create" /\ cell[w] = "X") => Symbol(w) = "X"
               /\ rejected => (raised[w] = "ValueError" /\ detail[w].columns = missing)

\* C17: a run on a file equal to the one whose run was rejected last ends
\* in the same exception with the same arguments, returns no summary, and
\* neither run has a row in any table.
C17_RejectionIdempotent ==
    \A w \in Workers :
        (pc[w] = "done" /\ lastRejected.seen /\ file[w] = lastRejected.file) =>
            /\ raised[w] = lastRejected.raised
            /\ detail[w] = lastRejected.detail
            /\ ~result[w].returned
            /\ \A j \in {job[w] - 1, job[w]} :
                  RowsBy(companies \cup predictions \cup ratios, <<w, j>>) = {}

\* The second of two runs on the same sheet without the symbol column has
\* gone through the finally block.
C17_Witness ==
    \E w \in Workers :
        /\ pc[w] = "done"
        /\ job[w] = 2
        /\ lastRejected.seen
        /\ file[w] = lastRejected.file
        /\ file[w].columns = {"company_name", "sector"}
        /\ file[w].nrows > 0
        /\ raised[w] = "ValueError"

\* The uncommitted rows of session s.
PendingRows(s) == s.companies \cup s.predictions \cup s.ratios

\* C20: the session an invocation made holds the uncommitted rows of that
\* invocation only, and a commit or a rollback of one invocation leaves the
\* sessions of the others as they were and publishes rows of its own
\* invocation only.
C20_SessionExclusive ==
    /\ [](\A w \in Workers : \A r \in PendingRows(sess[w]) : r.by = Invocation(w))
    /\ [][ \A w \in Workers :
             (pc[w] \in {"commit", "except"} /\ pc'[w] # pc[w]) =>
                 /\ \A o \in Workers \ {w} : sess'[o] = sess[o]
                 /\ \A r \in (companies' \ companies) \cup (predictions' \ predictions)
                              \cup (ratios' \ ratios) : r.by = Invocation(w)
         ]_vars

\* One invocation has rolled a record back while the other waits to commit
\* its uncommitted rows.
C20_Witness ==
    \E a, b \in Workers :
        /\ a # b
        /\ pc[a] = "loop"
        /\ failed[a] = 1
        /\ pc[b] = "commit"
        /\ sess[b].predictions # {}
        /\ sess[b].companies # {}

\* C13: a submission that was accepted is in the queue or was handed to a
\* worker, whether or not a worker listened when it was made, and a job
\* that waits while some worker listens is handed to a worker in the end.
C13_QueuedJobDelivered ==
    /\ [](\A id \in 1..Len(handles) :
            handles[id] = [task_id |-> id, status |-> "Task queued successfully"] =>
                id \in delivered \/ \E i \in 1..Len(queue) : queue[i].id = id)
    /\ \A id \in 1..MaxSubmits :
          ((\E i \in 1..Len(queue) : queue[i].id = id) /\ active # {}) ~> (id \in delivered)

\* Two jobs were accepted and wait while no worker listens.
C13_Witness ==
    /\ active = {}
    /\ Len(queue) = 2
    /\ Len(handles) = 2
    /\ delivered = {}

\* C14: a running job ends as succeeded or failed; it ends as succeeded
\* exactly when the function returned its summary, and as failed when the
\* schema error was raised; while it runs the worker keeps its job and its
\* file, and a worker starts a job only when it is idle and its last job
\* has ended.
C14_JobsRunToTerminal ==
    /\ [](\A w \in Workers :
            /\ status[w] = "succeeded" => (result[w].returned /\ raised[w] = None)
            /\ status[w] = "failed" => ~result[w].returned)
    /\ \A w \in Workers :
          (status[w] = "running") ~> (status[w] \in {"succeeded", "failed"})
    /\ [][ \A w \in Workers :
             /\ job'[w] # job[w] =>
                   (pc[w] = "idle" /\ status[w] \in {"pending", "succeeded", "failed"})
             /\ (status[w] = "running" /\ status'[w] = "running") =>
                   (job'[w] = job[w] /\ file'[w] = file[w])
             /\ (pc[w] = "done" /\ pc'[w] = "idle") =>
                   /\ status'[w] = "succeeded" <=> result[w].returned
                   /\ raised[w] = "ValueError" => status'[w] = "failed"
         ]_vars

\* The second job of a worker succeeded with a summary whose only record
\* failed.
C14_Witness ==
    \E w \in Workers :
        /\ job[w] = 2
        /\ status[w] = "succeeded"
        /\ result[w].returned
        /\ result[w].processed = 1
        /\ result[w].failed = 1

\* C15: a submission that the broker could not take got the error back in
\* the step of the submission itself; its job is never in the queue nor
\* handed to a worker, and the step starts no invocation.
C15_DispatchErrorSurfaced ==
    /\ [](\A id \in 1..Len(handles) :
            handles[id].status = "failed" =>
                (id \notin delivered /\ \A i \in 1..Len(queue) : queue[i].id # id))
    /\ [][ (/\ Len(handles') = Len(handles) + 1
            /\ handles'[Len(handles')].status = "failed")
           => (queue' = queue /\ delivered' = delivered /\ pc' = pc /\ job' = job)
         ]_vars

\* The first submission failed at the broker and the second one was handed
\* to a worker.
C15_Witness ==
    /\ Len(handles) = 2
    /\ handles[1].status = "failed"
    /\ delivered = {2}

\* C21: an invocation makes its session once, on the step that starts it
\* and so before the file is read and checked; db.close() has not been
\* called while the function body runs and has been called once when the
\* finally block is through, whether the function returned, raised the
\* schema error or could not read the file; the session is not used after
\* the close; and an invocation that has started gets there.
C21_SessionScopedToInvocation ==
    /\ [](\A w \in Workers :
            /\ pc[w] # "idle" => calls[w].acquired = 1
            /\ pc[w] \in {"read", "loop", "create", "score", "commit", "except", "finally"}
                  => calls[w].closes = 0
            /\ pc[w] = "done" => calls[w].closes = 1
            /\ ~calls[w].late)
    /\ [][ \A w \in Workers :
             calls'[w].acquired > calls[w].acquired => (pc[w] = "idle" /\ pc'[w] = "read")
         ]_vars
    /\ \A w \in Workers :
          (pc[w] = "read") ~> (pc[w] = "done" /\ calls[w].closes = 1)

\* The second invocation of a worker could not read its file and has gone
\* through the finally block.
C21_Witness ==
    \E w \in Workers :
        /\ pc[w] = "done"
        /\ job[w] = 2
        /\ raised[w] = "ReadError"
        /\ calls[w].acquired = 1
        /\ calls[w].closes = 1

\* C22: a record sees at most one commit and at most one rollback; the
\* commit is called only when the session holds the prediction and the
\* ratios of the record; a record counted as succeeded had its commit and
\* no rollback, a record counted as failed had one rollback; and the
\* uncommitted rows of the session belong to the current record, none being
\* left between two records.
C22_OneRecordAtATime ==
    /\ [](\A w \in Workers :
            /\ calls[w].commits <= 1
            /\ calls[w].rollbacks <= 1
            /\ \A r \in sess[w].predictions \cup sess[w].ratios :
                  r.row = processed[w] /\ r.by = Invocation(w)
            /\ Cardinality(sess[w].companies) <= 1
            /\ pc[w] = "loop" =>
                  sess[w].companies \cup sess[w].predictions \cup sess[w].ratios = {})
    /\ [][ \A w \in Workers :
             /\ calls'[w].commits = calls[w].commits + 1 =>
                   /\ \E x \in sess[w].predictions : x.row = processed[w]
                   /\ \E x \in sess[w].ratios : x.row = processed[w]
             /\ succeeded'[w] = succeeded[w] + 1 =>
                   (calls'[w].commits = 1 /\ calls'[w].rollbacks = 0)
             /\ failed'[w] = failed[w] + 1 =>
                   (calls'[w].rollbacks = 1 /\ calls[w].rollbacks = 0)
         ]_vars

\* The third record of a batch failed at its commit and was rolled back,
\* after one record that succeeded and one that failed.
C22_Witness ==
    \E w \in Workers :
        /\ pc[w] = "loop"
        /\ processed[w] = 3
        /\ succeeded[w] = 1
        /\ failed[w] = 2
        /\ calls[w].commits = 1
        /\ calls[w].rollbacks = 1
====
